---- MODULE Spec2Model ----
(***************************************************************************)
(* Time-discretized ODE system adapters (Newton and Picard) and the matrix *)
(* translators of Tests/NumLib/TimeDiscretizedODESystem.h.                 *)
(*                                                                         *)
(* A Vector is a function on 1..n, a Matrix a function on (1..n) X (1..n). *)
(* Entries are integers; the arithmetic of the translators is exact.       *)
(***************************************************************************)
EXTENDS Integers, FiniteSets, Sequences, TLC

VARIABLES
    nl_tag,          \* NonlinearSolverTag of the adapter: "Newton" or "Picard"
    _ode,            \* the bound Equation (IFirstOrderImplicitOde)
    _time_disc,      \* the bound time-discretization strategy and its state
    _mat_trans,      \* the bound matrix translator variant
    _Jac, _M, _K, _b, \* the adapter's scratch storage
    x_new_timestep,  \* the solver driver's state vector
    op,              \* the operation performed by the last step
    ret,             \* what that operation returned to the driver
    odeCalls,        \* the Equation methods that operation invoked
    resCall,         \* arguments of the most recent _ode.assemble call
    jacCall          \* arguments of the most recent _ode.assembleJacobian call

vars == <<nl_tag, _ode, _time_disc, _mat_trans, _Jac, _M, _K, _b,
          x_new_timestep, op, ret, odeCalls, resCall, jacCall>>

-----------------------------------------------------------------------------
(* Bounds of the model *)

Dim == 2         \* getMatrixSize() of the bound Equation
MaxVal == 2      \* scale of the driver's vectors and of fresh storage: 0..MaxVal
MaxAlpha == 2    \* getCurrentXWeight() ranges over 1..MaxAlpha
MaxT == 1        \* getCurrentTime() ranges over 0..MaxT

-----------------------------------------------------------------------------
(* Matrix and Vector arithmetic *)

Idx(n) == 1..n

VecDim(v) == Cardinality(DOMAIN v)

RECURSIVE RowDot(_, _, _, _)
RowDot(A, v, i, j) ==
    IF j = 0 THEN 0 ELSE A[i, j] * v[j] + RowDot(A, v, i, j - 1)

MatVec(A, v) == [i \in DOMAIN v |-> RowDot(A, v, i, VecDim(v))]

MatScale(A, a) == [p \in DOMAIN A |-> A[p] * a]

MatAdd(A, B) == [p \in DOMAIN A |-> A[p] + B[p]]

VecScale(a, v) == [i \in DOMAIN v |-> a * v[i]]

VecAdd(u, v) == [i \in DOMAIN u |-> u[i] + v[i]]

VecSub(u, v) == [i \in DOMAIN u |-> u[i] - v[i]]

ZeroVec(n) == [i \in Idx(n) |-> 0]

\* Vectors the driver and the strategy hold: the multiples (a, 2a, 3a, ...).
Vecs(n) == {[i \in Idx(n) |-> a * i] : a \in 0..MaxVal}

\* Content of a Matrix(n, n) / Vector(n) that was constructed but never
\* written: the entries are indeterminate.
FreshMatrix(n, g) == [p \in Idx(n) \X Idx(n) |-> g]

FreshVector(n, g) == [i \in Idx(n) |-> g]

-----------------------------------------------------------------------------
(* The Equation collaborator (IFirstOrderImplicitOde): a deterministic     *)
(* function of its arguments.  ode = [n, lin]: the matrix size and whether *)
(* the equation is linear.                                                 *)

Odes == [n : {Dim}, lin : BOOLEAN]

OdeGetMatrixSize(ode) == ode.n

OdeIsLinear(ode) == ode.lin

\* assemble(t, x, M, K, b): overwrites M, K, b.  Mass and load depend on the
\* time t, the stiffness matrix of a nonlinear equation on the state x.
OdeAssemble(ode, t, x) ==
    [M |-> [p \in Idx(ode.n) \X Idx(ode.n) |->
                IF p[1] = p[2] THEN 2 + t ELSE 1],
     K |-> [p \in Idx(ode.n) \X Idx(ode.n) |->
                (IF p[1] >= p[2] THEN 1 ELSE 0)
                + (IF ode.lin THEN 0 ELSE x[p[2]])],
     b |-> [i \in Idx(ode.n) |-> 2 * i - 1 + t]]

\* assembleJacobian(t, x, dxdot_dx, dx_dx, Jac): overwrites Jac with
\* M*dxdot_dx + K*dx_dx, plus the derivative of K(x)*x for a nonlinear K.
OdeAssembleJacobian(ode, t, x, dxdot_dx, dx_dx) ==
    LET a == OdeAssemble(ode, t, x)
    IN  [p \in Idx(ode.n) \X Idx(ode.n) |->
            a.M[p] * dxdot_dx + a.K[p] * dx_dx
            + (IF ode.lin THEN 0 ELSE x[p[1]] * dx_dx)]

-----------------------------------------------------------------------------
(* The time-discretization strategy (ITimeDiscretization, ForwardEuler).   *)
(* td = [kind, lin, t, alpha, wOldX, xOld]                                 *)

TimeDiscKinds == {"General", "ForwardEuler"}

IsForwardEuler(td) == td.kind = "ForwardEuler"

GetCurrentTime(td) == td.t

GetCurrentXWeight(td) == td.alpha

GetWeightedOldX(td) == td.wOldX

\* ForwardEuler only.
GetXOld(td) == td.xOld

\* The state at which the spatial operator is evaluated: the old state for
\* the forward-explicit scheme, the new one otherwise.
GetCurrentX(td, x_new) == IF IsForwardEuler(td) THEN td.xOld ELSE x_new

\* d x_curr / d x_new
GetDxDx(td) == IF IsForwardEuler(td) THEN 0 ELSE 1

IsLinearTimeDisc(td) == td.lin

\* Scheme-specific correction of a freshly assembled Jacobian: the identity
\* for the forward-explicit scheme, a scaling for the others.
AdjustMatrix(td, Jac) ==
    IF IsForwardEuler(td) THEN Jac ELSE [p \in DOMAIN Jac |-> Jac[p] * 2]

\* The strategy's own getA / getRhs, used by the Picard adapter.
TimeDiscGetA(td, M, K) ==
    IF IsForwardEuler(td)
    THEN MatScale(M, td.alpha)
    ELSE MatAdd(MatScale(M, td.alpha), K)

TimeDiscGetRhs(td, M, K, b) ==
    IF IsForwardEuler(td)
    THEN VecSub(VecAdd(b, MatVec(M, td.wOldX)), MatVec(K, td.xOld))
    ELSE VecAdd(b, MatVec(M, td.wOldX))

TimeDiscs(n) ==
    {td \in [kind : TimeDiscKinds, lin : BOOLEAN, t : {0},
             alpha : 1..MaxAlpha, wOldX : Vecs(n), xOld : Vecs(n)] :
        ~IsForwardEuler(td) => td.xOld = ZeroVec(n)}

-----------------------------------------------------------------------------
(* MatrixTranslatorGeneral<IParabolicEquation> *)

MatrixTranslatorGeneral_getA(_time_disc_, M, K) ==
    LET dxdot_dx == GetCurrentXWeight(_time_disc_)
    IN  MatAdd(MatScale(M, dxdot_dx), K)

MatrixTranslatorGeneral_getRhs(_time_disc_, M, K, b) ==
    LET weighted_old_x == GetWeightedOldX(_time_disc_)
    IN  VecAdd(b, MatVec(M, weighted_old_x))

\* Mutant: the spatial operator is applied to the weighted old state.
MatrixTranslatorGeneral_getResidual_OldState(_time_disc_, M, K, b, x_new) ==
    LET alpha_ == GetCurrentXWeight(_time_disc_)
        x_old  == GetWeightedOldX(_time_disc_)
        x_dot  == VecSub(VecScale(alpha_, x_new), x_old)
    IN  VecSub(VecAdd(MatVec(M, x_dot), MatVec(K, x_old)), b)

MatrixTranslatorGeneral_getResidual(_time_disc_, M, K, b, x_new) ==
    LET alpha  == GetCurrentXWeight(_time_disc_)
        x_curr == GetCurrentX(_time_disc_, x_new)
        x_old  == GetWeightedOldX(_time_disc_)
        x_dot  == VecSub(VecScale(alpha, x_new), x_old)
    IN  VecSub(VecAdd(MatVec(M, x_dot), MatVec(K, x_curr)), b)

MatrixTranslatorGeneral_getJacobian(Jac) == Jac

(* MatrixTranslatorForwardEuler<IParabolicEquation> *)

\* Mutant: the stiffness term is kept, as in the general translator.
MatrixTranslatorForwardEuler_getA_WithK(_fwd_euler, M, K) ==
    LET dxdot_dx == GetCurrentXWeight(_fwd_euler)
    IN  MatAdd(MatScale(M, dxdot_dx), K)

MatrixTranslatorForwardEuler_getA(_fwd_euler, M, K) ==
    LET dxdot_dx == GetCurrentXWeight(_fwd_euler)
    IN  MatScale(M, dxdot_dx)

\* Mutant: K is applied to the weighted old state instead of xOld.
MatrixTranslatorForwardEuler_getRhs_WeightedOld(_fwd_euler, M, K, b) ==
    LET weighted_old_x == GetWeightedOldX(_fwd_euler)
    IN  VecSub(VecAdd(b, MatVec(M, weighted_old_x)),
               MatVec(K, weighted_old_x))

MatrixTranslatorForwardEuler_getRhs(_fwd_euler, M, K, b) ==
    LET weighted_old_x == GetWeightedOldX(_fwd_euler)
        x_old          == GetXOld(_fwd_euler)
    IN  VecSub(VecAdd(b, MatVec(M, weighted_old_x)), MatVec(K, x_old))

MatrixTranslatorForwardEuler_getResidual(_fwd_euler, M, K, b, x_new) ==
    LET alpha  == GetCurrentXWeight(_fwd_euler)
        x_curr == GetCurrentX(_fwd_euler, x_new)
        x_old  == GetWeightedOldX(_fwd_euler)
        x_dot  == VecSub(VecScale(alpha, x_new), x_old)
    IN  VecSub(VecAdd(MatVec(M, x_dot), MatVec(K, x_curr)), b)

MatrixTranslatorForwardEuler_getJacobian(Jac) == Jac

\* The one runtime-type-dependent decision: which translator to construct.
createMatrixTranslator(timeDisc) ==
    IF IsForwardEuler(timeDisc)
    THEN "MatrixTranslatorForwardEuler"
    ELSE "MatrixTranslatorGeneral"

(* Virtual dispatch on MatrixTranslator<IParabolicEquation> *)

MatrixTranslator_getA(mt, td, M, K) ==
    IF mt = "MatrixTranslatorForwardEuler"
    THEN MatrixTranslatorForwardEuler_getA(td, M, K)
    ELSE MatrixTranslatorGeneral_getA(td, M, K)

MatrixTranslator_getRhs(mt, td, M, K, b) ==
    IF mt = "MatrixTranslatorForwardEuler"
    THEN MatrixTranslatorForwardEuler_getRhs(td, M, K, b)
    ELSE MatrixTranslatorGeneral_getRhs(td, M, K, b)

MatrixTranslator_getResidual(mt, td, M, K, b, x_new) ==
    IF mt = "MatrixTranslatorForwardEuler"
    THEN MatrixTranslatorForwardEuler_getResidual(td, M, K, b, x_new)
    ELSE MatrixTranslatorGeneral_getResidual(td, M, K, b, x_new)

MatrixTranslator_getJacobian(mt, Jac) ==
    IF mt = "MatrixTranslatorForwardEuler"
    THEN MatrixTranslatorForwardEuler_getJacobian(Jac)
    ELSE MatrixTranslatorGeneral_getJacobian(Jac)

-----------------------------------------------------------------------------
(* Construction *)

Void == [kind |-> "void"]

Value(v) == [kind |-> "value", val |-> v]

NoCall == [called |-> FALSE]

NoMatrix == <<>>

\* TimeDiscretizedODESystem<Newton>(ode, time_discretization, mat_trans):
\* _Jac(n, n), _M(_Jac), _K(_Jac), _b(n).
Newton_TimeDiscretizedODESystem ==
    /\ nl_tag = "Newton"
    /\ \E g \in 0..MaxVal :
          /\ _Jac = FreshMatrix(OdeGetMatrixSize(_ode), g)
          /\ _b = FreshVector(OdeGetMatrixSize(_ode), g)
    /\ _M = _Jac
    /\ _K = _Jac

\* TimeDiscretizedODESystem<Picard>(ode, time_discretization, mat_trans):
\* _M(n, n), _K(_M), _b(n); this adapter has no _Jac.
Picard_TimeDiscretizedODESystem ==
    /\ nl_tag = "Picard"
    /\ \E g \in 0..MaxVal :
          /\ _M = FreshMatrix(OdeGetMatrixSize(_ode), g)
          /\ _b = FreshVector(OdeGetMatrixSize(_ode), g)
    /\ _K = _M
    /\ _Jac = NoMatrix

Init ==
    /\ _ode \in Odes
    /\ _time_disc \in TimeDiscs(OdeGetMatrixSize(_ode))
    /\ _mat_trans = createMatrixTranslator(_time_disc)
    /\ nl_tag \in {"Newton", "Picard"}
    /\ Newton_TimeDiscretizedODESystem \/ Picard_TimeDiscretizedODESystem
    /\ x_new_timestep \in Vecs(OdeGetMatrixSize(_ode))
    /\ op = "constructor"
    /\ ret = Void
    /\ odeCalls = {}
    /\ resCall = NoCall
    /\ jacCall = NoCall

-----------------------------------------------------------------------------
(* TimeDiscretizedODESystem<NonlinearSolverTag::Newton> *)

Newton_assembleResidualNewton ==
    /\ nl_tag = "Newton"
    /\ LET t      == GetCurrentTime(_time_disc)
           x_curr == GetCurrentX(_time_disc, x_new_timestep)
           a      == OdeAssemble(_ode, t, x_curr)
       IN  /\ _M' = a.M
           /\ _K' = a.K
           /\ _b' = a.b
           /\ resCall' = [called |-> TRUE, t |-> t, x |-> x_curr]
    /\ odeCalls' = {"assemble"}
    /\ op' = "assembleResidualNewton"
    /\ ret' = Void
    /\ UNCHANGED <<nl_tag, _ode, _time_disc, _mat_trans, _Jac,
                   x_new_timestep, jacCall>>

\* Mutant: the Jacobian is built in _K before it is copied to _Jac.
Newton_assembleJacobian_ScratchK ==
    /\ nl_tag = "Newton"
    /\ LET t        == GetCurrentTime(_time_disc)
           x_curr   == GetCurrentX(_time_disc, x_new_timestep)
           dxdot_dx == GetCurrentXWeight(_time_disc)
           dx_dx    == GetDxDx(_time_disc)
       IN  /\ _K' = OdeAssembleJacobian(_ode, t, x_curr, dxdot_dx, dx_dx)
           /\ _Jac' = AdjustMatrix(_time_disc, _K')
           /\ jacCall' = [called |-> TRUE, t |-> t, x |-> x_curr,
                          dxdot_dx |-> dxdot_dx, dx_dx |-> dx_dx]
    /\ odeCalls' = {"assembleJacobian"}
    /\ op' = "assembleJacobian"
    /\ ret' = Void
    /\ UNCHANGED <<nl_tag, _ode, _time_disc, _mat_trans, _M, _b,
                   x_new_timestep, resCall>>

Newton_assembleJacobian ==
    /\ nl_tag = "Newton"
    /\ LET t        == GetCurrentTime(_time_disc)
           x_curr   == GetCurrentX(_time_disc, x_new_timestep)
           dxdot_dx == GetCurrentXWeight(_time_disc)
           dx_dx    == GetDxDx(_time_disc)
       IN  /\ _Jac' = AdjustMatrix(_time_disc,
                         OdeAssembleJacobian(_ode, t, x_curr, dxdot_dx, dx_dx))
           /\ jacCall' = [called |-> TRUE, t |-> t, x |-> x_curr,
                          dxdot_dx |-> dxdot_dx, dx_dx |-> dx_dx]
    /\ odeCalls' = {"assembleJacobian"}
    /\ op' = "assembleJacobian"
    /\ ret' = Void
    /\ UNCHANGED <<nl_tag, _ode, _time_disc, _mat_trans, _M, _K, _b,
                   x_new_timestep, resCall>>

\* Mutant: the getter refuses to run before assembleResidualNewton.
Newton_getResidual_Checked ==
    /\ nl_tag = "Newton"
    /\ ret' = IF resCall.called
              THEN Value(MatrixTranslator_getResidual(
                             _mat_trans, _time_disc, _M, _K, _b,
                             x_new_timestep))
              ELSE [kind |-> "error"]
    /\ odeCalls' = {}
    /\ op' = "getResidual"
    /\ UNCHANGED <<nl_tag, _ode, _time_disc, _mat_trans, _Jac, _M, _K, _b,
                   x_new_timestep, resCall, jacCall>>

\* Mutant: the getter assembles for the current state before it delegates.
Newton_getResidual_Reassembles ==
    /\ nl_tag = "Newton"
    /\ LET t      == GetCurrentTime(_time_disc)
           x_curr == GetCurrentX(_time_disc, x_new_timestep)
           a      == OdeAssemble(_ode, t, x_curr)
       IN  /\ _M' = a.M
           /\ _K' = a.K
           /\ _b' = a.b
           /\ resCall' = [called |-> TRUE, t |-> t, x |-> x_curr]
           /\ ret' = Value(MatrixTranslator_getResidual(
                               _mat_trans, _time_disc, a.M, a.K, a.b,
                               x_new_timestep))
    /\ odeCalls' = {"assemble"}
    /\ op' = "getResidual"
    /\ UNCHANGED <<nl_tag, _ode, _time_disc, _mat_trans, _Jac,
                   x_new_timestep, jacCall>>

Newton_getResidual ==
    /\ nl_tag = "Newton"
    /\ ret' = Value(MatrixTranslator_getResidual(_mat_trans, _time_disc,
                                                 _M, _K, _b, x_new_timestep))
    /\ odeCalls' = {}
    /\ op' = "getResidual"
    /\ UNCHANGED <<nl_tag, _ode, _time_disc, _mat_trans, _Jac, _M, _K, _b,
                   x_new_timestep, resCall, jacCall>>

Newton_getJacobian ==
    /\ nl_tag = "Newton"
    /\ ret' = Value(MatrixTranslator_getJacobian(_mat_trans, _Jac))
    /\ odeCalls' = {}
    /\ op' = "getJacobian"
    /\ UNCHANGED <<nl_tag, _ode, _time_disc, _mat_trans, _Jac, _M, _K, _b,
                   x_new_timestep, resCall, jacCall>>

\* Mutant: both the strategy and the Equation must be linear.
Newton_isLinear_BothRequired ==
    /\ nl_tag = "Newton"
    /\ ret' = Value(IsLinearTimeDisc(_time_disc) /\ OdeIsLinear(_ode))
    /\ odeCalls' = {}
    /\ op' = "isLinear"
    /\ UNCHANGED <<nl_tag, _ode, _time_disc, _mat_trans, _Jac, _M, _K, _b,
                   x_new_timestep, resCall, jacCall>>

Newton_isLinear ==
    /\ nl_tag = "Newton"
    /\ ret' = Value(IsLinearTimeDisc(_time_disc) \/ OdeIsLinear(_ode))
    /\ odeCalls' = {}
    /\ op' = "isLinear"
    /\ UNCHANGED <<nl_tag, _ode, _time_disc, _mat_trans, _Jac, _M, _K, _b,
                   x_new_timestep, resCall, jacCall>>

-----------------------------------------------------------------------------
(* TimeDiscretizedODESystem<NonlinearSolverTag::Picard> *)

Picard_assembleMatricesPicard ==
    /\ nl_tag = "Picard"
    /\ LET t      == GetCurrentTime(_time_disc)
           x_curr == GetCurrentX(_time_disc, x_new_timestep)
           a      == OdeAssemble(_ode, t, x_curr)
       IN  /\ _M' = a.M
           /\ _K' = a.K
           /\ _b' = a.b
           /\ resCall' = [called |-> TRUE, t |-> t, x |-> x_curr]
    /\ odeCalls' = {"assemble"}
    /\ op' = "assembleMatricesPicard"
    /\ ret' = Void
    /\ UNCHANGED <<nl_tag, _ode, _time_disc, _mat_trans, _Jac,
                   x_new_timestep, jacCall>>

\* Mutant: M and K are passed in the wrong order.
Picard_getA_Swapped ==
    /\ nl_tag = "Picard"
    /\ ret' = Value(TimeDiscGetA(_time_disc, _K, _M))
    /\ odeCalls' = {}
    /\ op' = "getA"
    /\ UNCHANGED <<nl_tag, _ode, _time_disc, _mat_trans, _Jac, _M, _K, _b,
                   x_new_timestep, resCall, jacCall>>

Picard_getA ==
    /\ nl_tag = "Picard"
    /\ ret' = Value(TimeDiscGetA(_time_disc, _M, _K))
    /\ odeCalls' = {}
    /\ op' = "getA"
    /\ UNCHANGED <<nl_tag, _ode, _time_disc, _mat_trans, _Jac, _M, _K, _b,
                   x_new_timestep, resCall, jacCall>>

\* Mutant: the right-hand side is accumulated in _b.
Picard_getRhs_InPlace ==
    /\ nl_tag = "Picard"
    /\ _b' = TimeDiscGetRhs(_time_disc, _M, _K, _b)
    /\ ret' = Value(_b')
    /\ odeCalls' = {}
    /\ op' = "getRhs"
    /\ UNCHANGED <<nl_tag, _ode, _time_disc, _mat_trans, _Jac, _M, _K,
                   x_new_timestep, resCall, jacCall>>

Picard_getRhs ==
    /\ nl_tag = "Picard"
    /\ ret' = Value(TimeDiscGetRhs(_time_disc, _M, _K, _b))
    /\ odeCalls' = {}
    /\ op' = "getRhs"
    /\ UNCHANGED <<nl_tag, _ode, _time_disc, _mat_trans, _Jac, _M, _K, _b,
                   x_new_timestep, resCall, jacCall>>

\* Mutant: only the Equation is asked.
Picard_isLinear_OdeOnly ==
    /\ nl_tag = "Picard"
    /\ ret' = Value(OdeIsLinear(_ode))
    /\ odeCalls' = {}
    /\ op' = "isLinear"
    /\ UNCHANGED <<nl_tag, _ode, _time_disc, _mat_trans, _Jac, _M, _K, _b,
                   x_new_timestep, resCall, jacCall>>

Picard_isLinear ==
    /\ nl_tag = "Picard"
    /\ ret' = Value(IsLinearTimeDisc(_time_disc) \/ OdeIsLinear(_ode))
    /\ odeCalls' = {}
    /\ op' = "isLinear"
    /\ UNCHANGED <<nl_tag, _ode, _time_disc, _mat_trans, _Jac, _M, _K, _b,
                   x_new_timestep, resCall, jacCall>>

-----------------------------------------------------------------------------
(* The matrix translator called on the adapter's matrices, which           *)
(* IParabolicEquation::getMatrices hands out.                              *)

MatrixTranslator_call_getA ==
    /\ ret' = Value(MatrixTranslator_getA(_mat_trans, _time_disc, _M, _K))
    /\ odeCalls' = {}
    /\ op' = "MatrixTranslator::getA"
    /\ UNCHANGED <<nl_tag, _ode, _time_disc, _mat_trans, _Jac, _M, _K, _b,
                   x_new_timestep, resCall, jacCall>>

MatrixTranslator_call_getRhs ==
    /\ ret' = Value(MatrixTranslator_getRhs(_mat_trans, _time_disc,
                                            _M, _K, _b))
    /\ odeCalls' = {}
    /\ op' = "MatrixTranslator::getRhs"
    /\ UNCHANGED <<nl_tag, _ode, _time_disc, _mat_trans, _Jac, _M, _K, _b,
                   x_new_timestep, resCall, jacCall>>

-----------------------------------------------------------------------------
(* The solver driver between calls *)

\* A new iterate.
Driver_updateX ==
    /\ x_new_timestep' \in Vecs(OdeGetMatrixSize(_ode)) \ {x_new_timestep}
    /\ odeCalls' = {}
    /\ op' = "driver"
    /\ ret' = Void
    /\ UNCHANGED <<nl_tag, _ode, _time_disc, _mat_trans, _Jac, _M, _K, _b,
                   resCall, jacCall>>

\* Through getTimeDiscretization(): accept the iterate and advance the time.
Driver_nextTimestep ==
    /\ GetCurrentTime(_time_disc) < MaxT
    /\ _time_disc' =
           [_time_disc EXCEPT
               !.t = @ + 1,
               !.wOldX = VecScale(_time_disc.alpha, x_new_timestep),
               !.xOld = IF IsForwardEuler(_time_disc)
                        THEN x_new_timestep ELSE @]
    /\ odeCalls' = {}
    /\ op' = "driver"
    /\ ret' = Void
    /\ UNCHANGED <<nl_tag, _ode, _mat_trans, _Jac, _M, _K, _b,
                   x_new_timestep, resCall, jacCall>>

Next ==
    \/ Newton_assembleResidualNewton
    \/ Newton_assembleJacobian
    \/ Newton_getResidual
    \/ Newton_getJacobian
    \/ Newton_isLinear
    \/ Picard_assembleMatricesPicard
    \/ Picard_getA
    \/ Picard_getRhs
    \/ Picard_isLinear
    \/ MatrixTranslator_call_getA
    \/ MatrixTranslator_call_getRhs
    \/ Driver_updateX
    \/ Driver_nextTimestep

Spec == Init /\ [][Next]_vars

-----------------------------------------------------------------------------
(* Quantities the claims speak about *)

n == OdeGetMatrixSize(_ode)

alpha == GetCurrentXWeight(_time_disc)

\* (A * v)[i], written out.
RowSum(A, v, i) == RowDot(A, v, i, n)

Getters == {"getResidual", "getJacobian", "getA", "getRhs", "isLinear",
            "MatrixTranslator::getA", "MatrixTranslator::getRhs"}

\* A and rhs of the bound translator for the stored matrices.
StoredA == MatrixTranslator_getA(_mat_trans, _time_disc, _M, _K)

StoredRhs == MatrixTranslator_getRhs(_mat_trans, _time_disc, _M, _K, _b)

\* The scenario of the specification, n = 1: M = 1, K = 2, b = 3, alpha = 1,
\* weightedOldX = 0.5, xOld = 1.  Vector entries are counted in halves.
ExM == [p \in Idx(1) \X Idx(1) |-> 1]

ExK == [p \in Idx(1) \X Idx(1) |-> 2]

ExB == <<6>>

ExTimeDisc(kind) ==
    [kind |-> kind, lin |-> FALSE, t |-> 0, alpha |-> 1,
     wOldX |-> <<1>>, xOld |-> IF kind = "ForwardEuler" THEN <<2>> ELSE <<0>>]

ExGetA(kind) ==
    MatrixTranslator_getA(createMatrixTranslator(ExTimeDisc(kind)),
                          ExTimeDisc(kind), ExM, ExK)

ExGetRhs(kind) ==
    MatrixTranslator_getRhs(createMatrixTranslator(ExTimeDisc(kind)),
                            ExTimeDisc(kind), ExM, ExK, ExB)

-----------------------------------------------------------------------------
\* C1 (as stated): isLinear() returns true exactly when both the Equation
\* and the strategy report linear, and false when only one of them does.
C1_BothLinear ==
    op = "isLinear" =>
        ret = Value(IsLinearTimeDisc(_time_disc) /\ OdeIsLinear(_ode))

\* C1 (amended): for both adapters isLinear() returns false exactly when the
\* Equation and the strategy both report non-linear; when exactly one of the
\* two reports linear it returns true.
C1_FalseOnlyIfBothNonlinear ==
    op = "isLinear" =>
        /\ ret.kind = "value"
        /\ ret.val \in BOOLEAN
        /\ (ret.val = FALSE) <=>
               (~IsLinearTimeDisc(_time_disc) /\ ~OdeIsLinear(_ode))
        /\ (IsLinearTimeDisc(_time_disc) # OdeIsLinear(_ode)) => ret.val = TRUE

C1_Witness ==
    /\ op = "isLinear"
    /\ nl_tag = "Newton"
    /\ IsLinearTimeDisc(_time_disc)
    /\ ~OdeIsLinear(_ode)
    /\ ret = Value(TRUE)

\* C2: for both adapters isLinear() returns true iff the strategy is linear
\* or the Equation is linear.
C2_LinearIffEither ==
    op = "isLinear" =>
        ret = Value(IsLinearTimeDisc(_time_disc) \/ OdeIsLinear(_ode))

C2_Witness ==
    /\ op = "isLinear"
    /\ nl_tag = "Picard"
    /\ ~IsLinearTimeDisc(_time_disc)
    /\ OdeIsLinear(_ode)
    /\ ret = Value(TRUE)

\* C3: the translator made by createMatrixTranslator returns
\* getA(M, K) = M*alpha + K for a strategy that is not forward-explicit and
\* M*alpha, without K, for the forward-explicit one; with n = 1, M = 1,
\* K = 2, alpha = 1 that is 3 and 1.
C3_GetA ==
    /\ op = "MatrixTranslator::getA" =>
          /\ ret.kind = "value"
          /\ DOMAIN ret.val = Idx(n) \X Idx(n)
          /\ \A i, j \in Idx(n) :
                ret.val[i, j] =
                    _M[i, j] * alpha
                    + (IF IsForwardEuler(_time_disc) THEN 0 ELSE _K[i, j])
    /\ ExGetA("General")[1, 1] = 3
    /\ ExGetA("ForwardEuler")[1, 1] = 1

C3_Witness ==
    /\ op = "MatrixTranslator::getA"
    /\ IsForwardEuler(_time_disc)
    /\ resCall.called
    /\ alpha = 2
    /\ ret.val # MatAdd(MatScale(_M, alpha), _K)

\* C4: the general translator returns getRhs(M, K, b) = b + M*weightedOldX,
\* the forward-explicit one b + M*weightedOldX - K*xOld; with n = 1, M = 1,
\* K = 2, b = 3, weightedOldX = 0.5, xOld = 1 that is 3.5 and 1.5.
C4_GetRhs ==
    /\ op = "MatrixTranslator::getRhs" =>
          /\ ret.kind = "value"
          /\ DOMAIN ret.val = Idx(n)
          /\ \A i \in Idx(n) :
                ret.val[i] =
                    _b[i] + RowSum(_M, GetWeightedOldX(_time_disc), i)
                    - (IF IsForwardEuler(_time_disc)
                       THEN RowSum(_K, GetXOld(_time_disc), i) ELSE 0)
    /\ ExGetRhs("General") = <<7>>
    /\ ExGetRhs("ForwardEuler") = <<3>>

C4_Witness ==
    /\ op = "MatrixTranslator::getRhs"
    /\ IsForwardEuler(_time_disc)
    /\ resCall.called
    /\ GetWeightedOldX(_time_disc) # ZeroVec(n)
    /\ MatVec(_K, GetXOld(_time_disc)) # ZeroVec(n)
    /\ GetXOld(_time_disc) # GetWeightedOldX(_time_disc)

\* C5: for each translator variant, every x with getA(M,K)*x = getRhs(M,K,b)
\* makes getResidual(M, K, b, x) the zero vector.
C5_ResidualZeroAtSolution ==
    (op = "getResidual" /\ MatVec(StoredA, x_new_timestep) = StoredRhs) =>
        ret = Value(ZeroVec(n))

C5_Witness ==
    /\ op = "getResidual"
    /\ IsForwardEuler(_time_disc)
    /\ resCall.called
    /\ MatVec(StoredA, x_new_timestep) = StoredRhs
    /\ x_new_timestep # ZeroVec(n)
    /\ x_new_timestep # GetXOld(_time_disc)
    /\ ret = Value(ZeroVec(n))

\* A getter was called though its matching assembly step never ran.
GetterBeforeAssembly ==
    \/ op = "getResidual" /\ ~resCall.called
    \/ op = "getJacobian" /\ ~jacCall.called
    \/ op \in {"getA", "getRhs"} /\ ~resCall.called

\* C6 (as stated): a getter called before its matching assembly step ends in
\* an error and returns no value to the driver.
C6_GetterBeforeAssemblyIsFatal ==
    GetterBeforeAssembly => ret.kind = "error"

\* C6 (amended): a getter called before its matching assembly step is not
\* detected; it returns normally, with the translator's (Picard: the
\* strategy's) result for the storage as the constructor left it, in which
\* _K is a copy of _M.
C6_GetterBeforeAssemblyReturns ==
    GetterBeforeAssembly =>
        /\ ret.kind = "value"
        /\ ~resCall.called => _K = _M
        /\ op = "getResidual" =>
              \A i \in Idx(n) :
                 ret.val[i] =
                     RowSum(_M, VecAdd(
                                   VecSub(VecScale(alpha, x_new_timestep),
                                          GetWeightedOldX(_time_disc)),
                                   GetCurrentX(_time_disc, x_new_timestep)), i)
                     - _b[i]
        /\ op = "getJacobian" => ret.val = _Jac
        /\ op = "getA" =>
              \A i, j \in Idx(n) :
                 ret.val[i, j] =
                     _M[i, j] * (alpha + IF IsForwardEuler(_time_disc)
                                         THEN 0 ELSE 1)
        /\ op = "getRhs" =>
              \A i \in Idx(n) :
                 ret.val[i] =
                     _b[i] + RowSum(_M, GetWeightedOldX(_time_disc), i)
                     - (IF IsForwardEuler(_time_disc)
                        THEN RowSum(_M, GetXOld(_time_disc), i) ELSE 0)

C6_Witness ==
    /\ op = "getResidual"
    /\ ~resCall.called
    /\ jacCall.called
    /\ ret.kind = "value"
    /\ ret.val # ZeroVec(n)

\* C7: on the Newton adapter, when both assembly steps have run for the
\* x_new and strategy state that are current, the stored matrices, and so
\* A, rhs, residual and Jacobian, are those the Equation gives for that
\* state, whatever the order of the two calls and however often they ran.
C7_AssemblyOrderAndRepetition ==
    (/\ nl_tag = "Newton"
     /\ resCall.called
     /\ jacCall.called
     /\ resCall.t = GetCurrentTime(_time_disc)
     /\ resCall.x = GetCurrentX(_time_disc, x_new_timestep)
     /\ jacCall.t = GetCurrentTime(_time_disc)
     /\ jacCall.x = GetCurrentX(_time_disc, x_new_timestep))
    =>
    LET a == OdeAssemble(_ode, GetCurrentTime(_time_disc),
                         GetCurrentX(_time_disc, x_new_timestep))
        J == OdeAssembleJacobian(_ode, GetCurrentTime(_time_disc),
                                 GetCurrentX(_time_disc, x_new_timestep),
                                 alpha, GetDxDx(_time_disc))
    IN  /\ _M = a.M /\ _K = a.K /\ _b = a.b
        /\ _Jac = AdjustMatrix(_time_disc, J)
        /\ StoredA = MatrixTranslator_getA(_mat_trans, _time_disc, a.M, a.K)
        /\ StoredRhs = MatrixTranslator_getRhs(_mat_trans, _time_disc,
                                               a.M, a.K, a.b)
        /\ op = "getResidual" =>
              ret.val = MatrixTranslator_getResidual(
                            _mat_trans, _time_disc, a.M, a.K, a.b,
                            x_new_timestep)
        /\ op = "getJacobian" => ret.val = AdjustMatrix(_time_disc, J)

\* The residual was assembled first, then the Jacobian for the same state.
C7_Witness ==
    /\ nl_tag = "Newton"
    /\ op = "assembleJacobian"
    /\ resCall.called
    /\ resCall.t = GetCurrentTime(_time_disc)
    /\ resCall.x = GetCurrentX(_time_disc, x_new_timestep)
    /\ x_new_timestep # ZeroVec(n)
    /\ ~OdeIsLinear(_ode)
    /\ ~IsForwardEuler(_time_disc)

\* C8: assembleResidualNewton and assembleMatricesPicard leave Jac
\* unchanged, assembleJacobian leaves M, K, b unchanged, the getters and
\* isLinear leave M, K, b, Jac unchanged, and no adapter or translator
\* operation changes the driver's x_new, the strategy's state, the Equation
\* or the bound translator.
C8_Frame ==
    [][/\ op' \in {"assembleResidualNewton", "assembleMatricesPicard"} =>
             _Jac' = _Jac
       /\ op' = "assembleJacobian" => <<_M, _K, _b>>' = <<_M, _K, _b>>
       /\ op' \in Getters => <<_M, _K, _b, _Jac>>' = <<_M, _K, _b, _Jac>>
       /\ op' # "driver" =>
             <<x_new_timestep, _time_disc, _ode, _mat_trans, nl_tag>>'
                 = <<x_new_timestep, _time_disc, _ode, _mat_trans, nl_tag>>
      ]_vars

\* The Jacobian was assembled after the residual, for another iterate, and
\* M, K, b are still those of the residual assembly.
C8_Witness ==
    /\ op = "assembleJacobian"
    /\ resCall.called
    /\ jacCall.x # resCall.x
    /\ ~OdeIsLinear(_ode)
    /\ _K = OdeAssemble(_ode, resCall.t, resCall.x).K
    /\ _K # OdeAssemble(_ode, jacCall.t, jacCall.x).K

\* C9: getResidual(x) returns the translator residual for exactly the
\* (M, K, b) the most recent assembleResidualNewton obtained from the
\* Equation, also for another x or after the time advanced; getJacobian
\* returns the Jacobian of the most recent assembleJacobian with adjustMatrix
\* applied after the Equation; no getter invokes the Equation.
C9_NoReassembly ==
    /\ (op = "getResidual" /\ resCall.called) =>
          LET a == OdeAssemble(_ode, resCall.t, resCall.x)
          IN  ret = Value(MatrixTranslator_getResidual(
                              _mat_trans, _time_disc, a.M, a.K, a.b,
                              x_new_timestep))
    /\ (op = "getJacobian" /\ jacCall.called) =>
          ret = Value(AdjustMatrix(_time_disc,
                          OdeAssembleJacobian(_ode, jacCall.t, jacCall.x,
                                              jacCall.dxdot_dx,
                                              jacCall.dx_dx)))
    /\ op \in Getters => odeCalls = {}

C9_Witness ==
    /\ op = "getResidual"
    /\ resCall.called
    /\ resCall.t # GetCurrentTime(_time_disc)
    /\ resCall.x # GetCurrentX(_time_disc, x_new_timestep)
    /\ ~OdeIsLinear(_ode)
    /\ LET a == OdeAssemble(_ode, GetCurrentTime(_time_disc),
                            GetCurrentX(_time_disc, x_new_timestep))
       IN  ret.val # MatrixTranslator_getResidual(
                         _mat_trans, _time_disc, a.M, a.K, a.b,
                         x_new_timestep)

====
